---- MODULE Spec2Model ----
(***************************************************************************)
(* Model of process_ecb_guide.ipynb: the line classifier                   *)
(* (process_text_file), the numbering check (increment_by_one), record     *)
(* assembly (extract_data), the footnote split and the paragraph merge     *)
(* pass.                                                                   *)
(*                                                                         *)
(* A Python str is a sequence of one-character strings, so that the        *)
(* regular expressions, strip, split, replace and join of the notebook are *)
(* computed character by character.  None is the one-element sequence      *)
(* <<"<None>">>, which no str can equal.                                   *)
(***************************************************************************)
EXTENDS Integers, Sequences, FiniteSets, TLC

\* ------------------------------------------------------------------------
\* Characters and str helpers
\* ------------------------------------------------------------------------

Digit == {"0", "1", "2", "3", "4", "5", "6", "7", "8", "9"}

Upper == {"A", "B", "C", "D", "E", "F", "G", "H", "I", "J", "K", "L", "M",
          "N", "O", "P", "Q", "R", "S", "T", "U", "V", "W", "X", "Y", "Z"}

Lower == {"a", "b", "c", "d", "e", "f", "g", "h", "i", "j", "k", "l", "m",
          "n", "o", "p", "q", "r", "s", "t", "u", "v", "w", "x", "y", "z"}

\* what \s and str.strip() treat as whitespace
White == {" ", "\t", "\n"}

\* the characters [A-Z"“] of the footnote rule; "ldquo" stands for U+201C
FootnoteOpen == Upper \cup {"\"", "ldquo"}

None == <<"<None>">>

\* s[p], or "" past either end
At(s, p) == IF p \in 1..Len(s) THEN s[p] ELSE ""

\* the position after the longest run of digits starting at p (\d+ or \d*)
DigitRunEnd(s, p) ==
  CHOOSE q \in p..(IF p > Len(s) THEN p ELSE Len(s) + 1) :
    /\ \A r \in p..(q - 1) : s[r] \in Digit
    /\ At(s, q) \notin Digit

\* the position after the longest run of whitespace starting at p (\s*)
WhiteRunEnd(s, p) ==
  CHOOSE q \in p..(IF p > Len(s) THEN p ELSE Len(s) + 1) :
    /\ \A r \in p..(q - 1) : s[r] \in White
    /\ At(s, q) \notin White

\* the position after the longest run of " " starting at p
BlankRunEnd(s, p) ==
  CHOOSE q \in p..(IF p > Len(s) THEN p ELSE Len(s) + 1) :
    /\ \A r \in p..(q - 1) : s[r] = " "
    /\ At(s, q) # " "

\* s.startswith(p) at offset k: s[k:].startswith(p)
StartsWithAt(s, p, k) ==
  /\ k + Len(p) - 1 <= Len(s)
  /\ \A r \in 1..Len(p) : s[k + r - 1] = p[r]

\* s.startswith(p)
StartsWith(s, p) == StartsWithAt(s, p, 1)

\* s.endswith(p)
EndsWith(s, p) == Len(s) >= Len(p) /\ StartsWithAt(s, p, Len(s) - Len(p) + 1)

\* s.strip()
strip(s) ==
  LET keep == {p \in 1..Len(s) : s[p] \notin White}
  IN  IF keep = {} THEN <<>>
      ELSE LET a == CHOOSE p \in keep : \A q \in keep : p <= q
               b == CHOOSE p \in keep : \A q \in keep : q <= p
           IN  SubSeq(s, a, b)

\* s.replace(old, new) for a non-empty old: every non-overlapping occurrence,
\* leftmost first (also re.sub of a pattern without metacharacters)
RECURSIVE replace(_, _, _)
replace(s, old, new) ==
  LET hits == {p \in 1..Len(s) : StartsWithAt(s, old, p)}
  IN  IF hits = {} THEN s
      ELSE LET p == CHOOSE h \in hits : \A g \in hits : h <= g
           IN  SubSeq(s, 1, p - 1) \o new
                 \o replace(SubSeq(s, p + Len(old), Len(s)), old, new)

\* s.split(sep) for a one-character sep: the pieces between the separators
RECURSIVE split(_, _)
split(s, sep) ==
  LET hits == {p \in 1..Len(s) : s[p] = sep}
  IN  IF hits = {} THEN <<s>>
      ELSE LET p == CHOOSE h \in hits : \A g \in hits : h <= g
           IN  <<SubSeq(s, 1, p - 1)>> \o split(SubSeq(s, p + 1, Len(s)), sep)

\* sep.join(parts)
RECURSIVE join(_, _)
join(parts, sep) ==
  IF parts = <<>> THEN <<>>
  ELSE IF Len(parts) = 1 THEN parts[1]
  ELSE parts[1] \o sep \o join(Tail(parts), sep)

\* the value of a decimal digit
DigitVal(c) ==
  CASE c = "0" -> 0 [] c = "1" -> 1 [] c = "2" -> 2 [] c = "3" -> 3
    [] c = "4" -> 4 [] c = "5" -> 5 [] c = "6" -> 6 [] c = "7" -> 7
    [] c = "8" -> 8 [] c = "9" -> 9

\* int(s) for a non-empty string of digits
RECURSIVE int(_)
int(s) ==
  IF Len(s) = 1 THEN DigitVal(s[1])
  ELSE 10 * int(SubSeq(s, 1, Len(s) - 1)) + DigitVal(s[Len(s)])

\* ------------------------------------------------------------------------
\* NumberingTracker: version_to_list, increment_by_one
\* ------------------------------------------------------------------------

\* list(map(int, version_str.split('.')))
version_to_list(version_str) ==
  LET parts == split(version_str, ".")
  IN  [k \in 1..Len(parts) |-> int(parts[k])]

\* the for loop of increment_by_one over zip(v1_list, v2_list), from pair k on,
\* with its early returns; the value is what the function returns
RECURSIVE increment_loop(_, _, _, _)
\* increment_loop without the return on a position that repeats its value
\* after an earlier position advanced
increment_loop_keeps_going(v1_list, v2_list, k, diff_count) ==
  IF k > Len(v1_list) \/ k > Len(v2_list) THEN diff_count = 1
  ELSE LET a == v1_list[k]
           b == v2_list[k]
           dc == IF b - a = 1 THEN diff_count + 1 ELSE diff_count
       IN  IF b < a THEN FALSE
           ELSE IF b - a > 1 THEN FALSE
           ELSE increment_loop(v1_list, v2_list, k + 1, dc)

increment_loop(v1_list, v2_list, k, diff_count) ==
  IF k > Len(v1_list) \/ k > Len(v2_list) THEN diff_count = 1
  ELSE LET a == v1_list[k]
           b == v2_list[k]
           dc == IF b - a = 1 THEN diff_count + 1 ELSE diff_count
       IN  IF b < a THEN FALSE
           ELSE IF b - a > 1 THEN FALSE
           ELSE IF b - a = 0 /\ dc > 0 THEN FALSE
           ELSE increment_loop(v1_list, v2_list, k + 1, dc)

increment_by_one(v1, v2) ==
  IF v1 = <<>> \/ v2 = <<>> THEN TRUE
  ELSE LET v1_list == version_to_list(v1)
           v2_list == version_to_list(v2)
       IN  IF Len(v1_list) # Len(v2_list) THEN FALSE
           ELSE increment_loop(v1_list, v2_list, 1, 0)

\* ------------------------------------------------------------------------
\* LineClassifier: the patterns of process_text_file
\* ------------------------------------------------------------------------

\* re.match(r'^(\d+(\.\d+){0,2}) (\s*[A-Z])', line): the position after group 1,
\* or 0 when the line does not match.  The candidates are the numeral with two,
\* one and no ".digits" groups, tried in that (greedy) order.
match_num_par(line) ==
  LET a == DigitRunEnd(line, 1)
      b == IF At(line, a) = "." /\ DigitRunEnd(line, a + 1) > a + 1
           THEN DigitRunEnd(line, a + 1) ELSE a
      c == IF b > a /\ At(line, b) = "." /\ DigitRunEnd(line, b + 1) > b + 1
           THEN DigitRunEnd(line, b + 1) ELSE b
      rest(e) == At(line, e) = " " /\ At(line, WhiteRunEnd(line, e + 1)) \in Upper
  IN  IF a = 1 THEN 0
      ELSE IF rest(c) THEN c
      ELSE IF rest(b) THEN b
      ELSE IF rest(a) THEN a
      ELSE 0

\* re.match(r'^\d+\.\d+ [A-Z]', s) is not None
match_two_part(s) ==
  LET a == DigitRunEnd(s, 1)
      b == DigitRunEnd(s, a + 1)
  IN  /\ a > 1
      /\ At(s, a) = "."
      /\ b > a + 1
      /\ At(s, b) = " "
      /\ At(s, b + 1) \in Upper

\* re.match(r'^(\d+\.\d+\.\d+) {1,3}[A-Z]', s) is not None
match_three_part(s) ==
  LET a == DigitRunEnd(s, 1)
      b == DigitRunEnd(s, a + 1)
      c == DigitRunEnd(s, b + 1)
      e == BlankRunEnd(s, c)
  IN  /\ a > 1
      /\ At(s, a) = "."
      /\ b > a + 1
      /\ At(s, b) = "."
      /\ c > b + 1
      /\ e - c \in 1..3
      /\ At(s, e) \in Upper

\* re.match(r'^\d+ [A-Z]', s)
match_number_upper(s) ==
  LET a == DigitRunEnd(s, 1)
  IN  a > 1 /\ At(s, a) = " " /\ At(s, a + 1) \in Upper

\* re.match(r'^\d+\. [A-Z]', s)
match_number_dot(s) ==
  LET a == DigitRunEnd(s, 1)
  IN  a > 1 /\ At(s, a) = "." /\ At(s, a + 1) = " " /\ At(s, a + 2) \in Upper

\* re.match(r'(^\d+)\s{2}([A-Z"“]+)', s) is not None
match_footnote(s) ==
  LET a == DigitRunEnd(s, 1)
  IN  /\ a > 1
      /\ At(s, a) \in White
      /\ At(s, a + 1) \in White
      /\ At(s, a + 2) \in FootnoteOpen

\* re.match(r'^[A-Z]', s)
match_upper(s) == At(s, 1) \in Upper

\* the scan "j = i + 1; while j < len(lines) and not lines[j].strip(): j += 1"
\* (0-based j; lines[j] of the source is lines[j + 1] here)
next_non_empty(lines, i) ==
  CHOOSE j \in (i + 1)..Len(lines) :
    /\ \A r \in (i + 1)..(j - 1) : strip(lines[r + 1]) = <<>>
    /\ (j = Len(lines) \/ strip(lines[j + 1]) # <<>>)

\* the markers written in front of a line
MarkTitle == <<"#", " ">>
MarkMain == <<"#", "#", " ">>
MarkSub == <<"#", "#", "#", " ">>
MarkSubSub == <<"#", "#", "#", "#", " ">>
MarkFootnote == <<"F", "O", "O", "T", "N", "O", "T", "E", " ">>
NL == <<"\n">>

\* heading_branch that joins the next line whatever its first character is
heading_branch_absorbs_any(mark, line, next_line, i, processed_lines, origin) ==
  IF next_line = <<>>
  THEN [error |-> "IndexError", i |-> i,
        processed_lines |-> processed_lines, origin |-> origin]
  ELSE [error |-> "",
        i |-> i + 1,
        processed_lines |-> processed_lines
                              \o <<NL, mark \o line \o <<" ">> \o next_line \o NL, NL>>,
        origin |-> origin \o <<<<>>, <<i, i + 1>>, <<>>>>]

\* The body shared by the three numbered-heading branches: "if
\* next_line[0].islower(): line = line + ' ' + next_line; i = i + 1", then the
\* three appends.  next_line[0] of an empty next_line raises IndexError.
heading_branch(mark, line, next_line, i, processed_lines, origin) ==
  IF next_line = <<>>
  THEN [error |-> "IndexError", i |-> i,
        processed_lines |-> processed_lines, origin |-> origin]
  ELSE LET absorb == next_line[1] \in Lower
           line2 == IF absorb THEN line \o <<" ">> \o next_line ELSE line
           i2 == IF absorb THEN i + 1 ELSE i
       IN  [error |-> "",
            i |-> i2,
            processed_lines |-> processed_lines \o <<NL, mark \o line2 \o NL, NL>>,
            origin |-> origin \o <<<<>>, IF absorb THEN <<i, i + 1>> ELSE <<i>>, <<>>>>]

\* the gate of the two-part rule: the pattern and the numbering check, both
\* evaluated (the source joins them with "&")
sub_heading_gate(line, last_seen_sub, num_par) ==
  match_two_part(line) /\ increment_by_one(last_seen_sub, num_par)

\* the gate of the three-part rule: the pattern alone
sub_sub_heading_gate(line, last_seen_sub_sub, num_par) ==
  match_three_part(line)

\* a gate of the single-numeral rule that does not look at the next line
main_heading_gate_any_next(line, next_raw) ==
  match_number_upper(line)

\* the gate of the single-numeral rule; next_raw is lines[i + 1], not stripped
main_heading_gate(line, next_raw) ==
  match_number_upper(line) /\ (match_two_part(next_raw) \/ match_number_dot(next_raw))

\* the gate of the un-numbered title rule; lines[j] is not stripped
title_gate(lines, j, line) ==
  /\ j < Len(lines)
  /\ StartsWith(lines[j + 1], <<"1">>)
  /\ match_number_upper(lines[j + 1])
  /\ match_upper(line)

\* One pass of the while loop of process_text_file at 0-based index i.  c holds
\* the loop's variables; the result holds them after "i += 1" (or the error
\* raised).  origin is the history of which input lines each output line holds.
classify_line(lines, c) ==
  LET i == c.i
      line == strip(lines[i + 1])
      next_line == strip(lines[i + 2])
      k == match_num_par(line)
      num_par == IF k # 0 THEN SubSeq(line, 1, k - 1) ELSE c.num_par
      j == next_non_empty(lines, i)
      c1 == [c EXCEPT !.num_par = num_par]
      head(mark) == heading_branch(mark, line, next_line, i, c.processed_lines, c.origin)
      after(h) == [c1 EXCEPT !.error = h.error,
                             !.i = IF h.error = "" THEN h.i + 1 ELSE h.i,
                             !.processed_lines = h.processed_lines,
                             !.origin = h.origin]
      plain(out, org) == [c1 EXCEPT !.i = i + 1,
                                    !.processed_lines = c.processed_lines \o out,
                                    !.origin = c.origin \o org]
  IN  IF title_gate(lines, j, line)
      THEN plain(<<MarkTitle \o line \o NL>>, <<<<i>>>>)
      ELSE IF sub_heading_gate(line, c.last_seen_sub, num_par)
      THEN LET h == after(head(MarkSub))
           IN  IF h.error = "" THEN [h EXCEPT !.last_seen_sub = num_par] ELSE h
      ELSE IF sub_sub_heading_gate(line, c.last_seen_sub_sub, num_par)
      THEN LET h == after(head(MarkSubSub))
           IN  IF h.error = "" THEN [h EXCEPT !.last_seen_sub_sub = num_par] ELSE h
      ELSE IF main_heading_gate(line, lines[i + 2])
      THEN LET h == after(head(MarkMain))
           IN  IF h.error = "" THEN [h EXCEPT !.last_seen_main = num_par,
                                              !.last_seen_sub = <<>>] ELSE h
      ELSE IF match_number_dot(line)
      THEN plain(<<NL, line \o NL>>, <<<<>>, <<i>>>>)
      ELSE IF match_footnote(line)
      THEN plain(<<NL, MarkFootnote \o line \o NL>>, <<<<>>, <<i>>>>)
      ELSE [plain(<<line \o NL>>, <<<<i>>>>) EXCEPT !.footnote = num_par]

\* lines.append('Sentinel line')
Sentinel == <<"S", "e", "n", "t", "i", "n", "e", "l", " ", "l", "i", "n", "e">>

\* the loop variables before the first pass
classify_init ==
  [i |-> 0, num_par |-> <<>>, last_seen_main |-> <<>>, last_seen_sub |-> <<>>,
   last_seen_sub_sub |-> <<>>, footnote |-> <<"0">>, processed_lines |-> <<>>,
   origin |-> <<>>, error |-> ""]

\* f.writelines(processed_lines), then file.read(): the text of the file
RECURSIVE writelines(_)
writelines(ls) == IF ls = <<>> THEN <<>> ELSE ls[1] \o writelines(Tail(ls))


\* ------------------------------------------------------------------------
\* ParagraphAssembler and RecordBuilder: extract_data
\* ------------------------------------------------------------------------

MarkFOOTNOTE == <<"F", "O", "O", "T", "N", "O", "T", "E">>
Hash(n) == [k \in 1..n |-> "#"]

\* re.search(r"FOOTNOTE\s*(\d+)", s): group 1 of the leftmost match, or None
search_footnote_id(s) ==
  LET found(p) == /\ StartsWithAt(s, MarkFOOTNOTE, p)
                  /\ LET w == WhiteRunEnd(s, p + Len(MarkFOOTNOTE))
                     IN  DigitRunEnd(s, w) > w
      hits == {p \in 1..Len(s) : found(p)}
  IN  IF hits = {} THEN None
      ELSE LET p == CHOOSE h \in hits : \A g \in hits : h <= g
               w == WhiteRunEnd(s, p + Len(MarkFOOTNOTE))
           IN  SubSeq(s, w, DigitRunEnd(s, w) - 1)

\* f'Footnote {id}'
footnote_label(id) == <<"F", "o", "o", "t", "n", "o", "t", "e", " ">> \o id

\* heading_label that also takes the numeral off the label
heading_label_without_numeral(stripped_line, marker) ==
  LET t == strip(replace(stripped_line, marker, <<>>))
  IN  IF match_num_par(t) # 0 THEN strip(SubSeq(t, match_num_par(t), Len(t))) ELSE t

\* stripped_line.replace(marker, "").strip()
heading_label(stripped_line, marker) == strip(replace(stripped_line, marker, <<>>))

\* The labels after a heading line of depth n (0..4) is read: level n is set
\* and every deeper label, the footnote label included, is None.  level[m + 1]
\* is level_m_label.
\* set_level that leaves the footnote label as it was
set_level_keeps_footnote(level, n, label) ==
  [m \in 1..6 |-> IF m - 1 < n THEN level[m]
                  ELSE IF m - 1 = n THEN label
                  ELSE IF m = 6 THEN level[6]
                  ELSE None]

set_level(level, n, label) ==
  [m \in 1..6 |-> IF m - 1 < n THEN level[m]
                  ELSE IF m - 1 = n THEN label
                  ELSE None]

\* the depth of the heading marker a line starts with: 4 for "#####" down to 0
\* for "#", or -1 for a line that starts with none
marker_depth(stripped_line) ==
  IF StartsWith(stripped_line, Hash(5)) THEN 4
  ELSE IF StartsWith(stripped_line, Hash(4)) THEN 3
  ELSE IF StartsWith(stripped_line, Hash(3)) THEN 2
  ELSE IF StartsWith(stripped_line, Hash(2)) THEN 1
  ELSE IF StartsWith(stripped_line, Hash(1)) THEN 0
  ELSE -1

\* the marker text removed from a heading line of depth n
marker_of(n) == Hash(n + 1)

\* the row appended to data
data_row(level, body_buffer) ==
  [Level_0_Label |-> level[1], Level_1_Label |-> level[2],
   Level_2_Label |-> level[3], Level_3_Label |-> level[4],
   Level_4_Label |-> level[5], Level_5_Label |-> level[6],
   Body |-> join(body_buffer, <<" ">>)]

\* [line for line in body_buffer if line]
RECURSIVE non_blank(_)
non_blank(buf) ==
  IF buf = <<>> THEN <<>>
  ELSE IF buf[1] = <<>> THEN non_blank(Tail(buf))
  ELSE <<buf[1]>> \o non_blank(Tail(buf))

\* should_end_paragraph
is_empty_line_with_buffer(stripped_line, body_buffer) ==
  stripped_line = <<>> /\ body_buffer # <<>>

next_line_starts_lower(stripped_line_2) ==
  Len(stripped_line_2) = 0 \/ stripped_line_2[1] \in Lower

\* current_line_special_end without the exception of the abbreviations
special_end_any_period(stripped_line) == EndsWith(stripped_line, <<".">>)

current_line_special_end(stripped_line) ==
  /\ EndsWith(stripped_line, <<".">>)
  /\ ~(\/ EndsWith(stripped_line, <<"e", ".", "g", ".">>)
       \/ EndsWith(stripped_line, <<"i", ".", "e", ".">>))

should_end_paragraph(stripped_line, stripped_line_2, body_buffer) ==
  \/ is_empty_line_with_buffer(stripped_line, body_buffer)
  \/ (next_line_starts_lower(stripped_line_2) /\ current_line_special_end(stripped_line))

\* The labels and the buffer after the marker cascade of one line.  A line that
\* starts with FOOTNOTE and holds no number makes match None, and
\* match.group(1) raises AttributeError.
read_markers(stripped_line, e) ==
  IF StartsWith(stripped_line, MarkFOOTNOTE)
  THEN LET id == search_footnote_id(stripped_line)
       IN  IF id = None THEN [e EXCEPT !.error = "AttributeError"]
           ELSE [e EXCEPT !.level[6] = footnote_label(id),
                          !.body_buffer = Append(e.body_buffer, stripped_line)]
  ELSE LET n == marker_depth(stripped_line)
       IN  IF n >= 0
           THEN [e EXCEPT !.level = set_level(e.level, n,
                                      heading_label(stripped_line, marker_of(n)))]
           ELSE [e EXCEPT !.body_buffer = Append(e.body_buffer, stripped_line)]

\* end_paragraph without the test for a buffer of blank lines only
end_paragraph_any_buffer(stripped_line, stripped_line_2, e) ==
  IF should_end_paragraph(stripped_line, stripped_line_2, e.body_buffer)
  THEN [e EXCEPT !.data = Append(e.data, data_row(e.level, e.body_buffer)),
                 !.level[6] = None,
                 !.body_buffer = <<>>]
  ELSE e

\* end_paragraph that leaves the footnote label set when a record is appended
end_paragraph_keeps_label(stripped_line, stripped_line_2, e) ==
  IF should_end_paragraph(stripped_line, stripped_line_2, e.body_buffer)
  THEN IF non_blank(e.body_buffer) # <<>>
       THEN [e EXCEPT !.data = Append(e.data, data_row(e.level, e.body_buffer)),
                      !.body_buffer = <<>>]
       ELSE [e EXCEPT !.body_buffer = <<>>]
  ELSE e

\* the paragraph boundary of one line: the record appended and the buffer
\* emptied
end_paragraph(stripped_line, stripped_line_2, e) ==
  IF should_end_paragraph(stripped_line, stripped_line_2, e.body_buffer)
  THEN IF non_blank(e.body_buffer) # <<>>
       THEN [e EXCEPT !.data = Append(e.data, data_row(e.level, e.body_buffer)),
                      !.level[6] = None,
                      !.body_buffer = <<>>]
       ELSE [e EXCEPT !.body_buffer = <<>>]
  ELSE e

\* one pass of "for i in range(len(lines) - 1)" at 0-based index e.i
extract_line(lines, e) ==
  LET stripped_line == strip(lines[e.i + 1])
      stripped_line_2 == strip(lines[e.i + 2])
      e1 == read_markers(stripped_line, e)
  IN  IF e1.error # "" THEN e1
      ELSE [end_paragraph(stripped_line, stripped_line_2, e1) EXCEPT !.i = e.i + 1]

\* flush_buffer without the test of the buffer
flush_buffer_always(e) == Append(e.data, data_row(e.level, e.body_buffer))

\* "if body_buffer: data.append(...)" after the loop
flush_buffer(e) ==
  IF e.body_buffer # <<>>
  THEN Append(e.data, data_row(e.level, e.body_buffer))
  ELSE e.data

\* the loop variables of extract_data before the first pass
extract_init ==
  [i |-> 0, level |-> [m \in 1..6 |-> None], body_buffer |-> <<>>,
   data |-> <<>>, error |-> ""]

\* x.split(): the maximal runs of non-whitespace
RECURSIVE words(_)
words(x) ==
  LET keep == {p \in 1..Len(x) : x[p] \notin White}
  IN  IF keep = {} THEN <<>>
      ELSE LET a == CHOOSE p \in keep : \A q \in keep : p <= q
               gaps == {p \in a..Len(x) : x[p] \in White}
               b == IF gaps = {} THEN Len(x) + 1
                    ELSE CHOOSE p \in gaps : \A q \in gaps : p <= q
           IN  <<SubSeq(x, a, b - 1)>> \o words(SubSeq(x, b, Len(x)))

\* sum(1 for word in x.split() if len(word) >= 3)
MinWordLen == 3
num_of_words(x) ==
  LET w == words(x) IN Cardinality({k \in 1..Len(w) : Len(w[k]) >= MinWordLen})

\* starts_with_integer_ends_with_dot, as a boolean (1 is TRUE)
starts_with_integer_ends_with_dot(s) ==
  LET pattern_1 == At(s, 1) \in Digit /\ Len(s) >= 2 /\ s[Len(s)] = "."
      pattern_2 == StartsWith(s, <<"T", "a", "b", "l", "e">>)
      pattern_3 == /\ At(s, 1) \in Digit
                   /\ \E p \in 2..(Len(s) - 1) :
                        /\ s[p] = "."
                        /\ \A r \in (p + 1)..Len(s) : s[r] \in Digit
  IN  pattern_1 \/ pattern_2 \/ pattern_3

\* a row of the DataFrame extract_data returns; index is its RangeIndex label
frame_row(d, idx) ==
  [Level_0_Label |-> d.Level_0_Label, Level_1_Label |-> d.Level_1_Label,
   Level_2_Label |-> d.Level_2_Label, Level_3_Label |-> d.Level_3_Label,
   Level_4_Label |-> d.Level_4_Label, Level_5_Label |-> d.Level_5_Label,
   Body |-> strip(d.Body),
   num_of_words |-> num_of_words(d.Body),
   no_fault_detected |-> starts_with_integer_ends_with_dot(d.Body),
   index |-> idx]

\* pd.DataFrame(data, columns=[...]) with the three derived columns
data_frame(data) == [k \in 1..Len(data) |-> frame_row(data[k], k - 1)]

\* ------------------------------------------------------------------------
\* TextNormalizer: clean_text_columns
\* ------------------------------------------------------------------------

\* the chain of .str.replace calls, in order, as (pattern, replacement); the
\* three regex=True patterns hold no metacharacter but the escaped "("
ReplaceTable ==
  << <<<<" ", " ">>,
       <<" ">>>>,
     <<<<" ", "-">>,
       <<"-">>>>,
     <<<<"r", "e", "g", "u", "l", "a", "t", "o", " ", "r", "y">>,
       <<"r", "e", "g", "u", "l", "a", "t", "o", "r", "y">>>>,
     <<<<"B", " ", "a", "n", "k", "i", "n", "g">>,
       <<"B", "a", "n", "k", "i", "n", "g">>>>,
     <<<<"t", " ", "h", "e">>,
       <<"t", "h", "e">>>>,
     <<<<"f", "o", " ", "l", "l", "o", "w">>,
       <<"f", "o", "l", "l", "o", "w">>>>,
     <<<<"(", " ", " ">>,
       <<"(">>>>,
     <<<<"m", " ", "a", "t", "u", "r", "i", "t", "y">>,
       <<"m", "a", "t", "u", "r", "i", "t", "y">>>>,
     <<<<"s", "y", " ", "s", "t", "e", "m", "s">>,
       <<"s", "y", "s", "t", "e", "m", "s">>>>,
     <<<<"G", "r", "a", "n", "u", "l", "a", "r", "i", "t", "y", " ", ",">>,
       <<"G", "r", "a", "n", "u", "l", "a", "r", "i", "t", "y", ",">>>>,
     <<<<"i", "n", "t", "e", "r", "n", "a", " ", "l">>,
       <<"i", "n", "t", "e", "r", "n", "a", "l">>>>,
     <<<<"d", "a", "t", "a", "2", "4">>,
       <<"d", "a", "t", "a", " ", "2", "4">>>>,
     <<<<"c", "o", " ", "n", "s", "o", "l", "i", "d", "a", "t", "i", "o", "n", "s">>,
       <<"c", "o", "n", "s", "o", "l", "i", "d", "a", "t", "i", "o", "n", "s">>>>,
     <<<<"R", "e", "l", "e", "v", "a", "n", " ", "t">>,
       <<"R", "e", "l", "e", "v", "a", "n", "t">>>>,
     <<<<"R", "e", "g", "u", "l", "a", " ", "t", "o", "r", "y">>,
       <<"R", "e", "g", "u", "l", "a", "t", "o", "r", "y">>>>,
     <<<<"R", "e", "l", "e", "v", " ", "a", "n", "t">>,
       <<"R", "e", "l", "e", "v", "a", "n", "t">>>>,
     <<<<"a", "p", "p", "l", "i", "c", "a", "t", " ", "i", "o", "n">>,
       <<"a", "p", "p", "l", "i", "c", "a", "t", "i", "o", "n">>>>,
     <<<<"Q", "u", "a", "n", "t", "i", "f", "i", "c", "a", "t", " ", "i", "o", "n">>,
       <<"Q", "u", "a", "n", "t", "i", "f", "i", "c", "a", "t", "i", "o", "n">>>>,
     <<<<"b", "a", "c", " ", "k", "-", "t", "e", "s", "t", "i", "n", "g">>,
       <<"b", "a", "c", "k", "-", "t", "e", "s", "t", "i", "n", "g">>>>,
     <<<<"a", "d", "j", " ", "u", "s", "t", "m", "e", "n", "t", "s">>,
       <<"a", "d", "j", "u", "s", "t", "m", "e", "n", "t", "s">>>>,
     <<<<"i", "n", "t", "e", " ", "r", "n", "a", "l">>,
       <<"i", "n", "t", "e", "r", "n", "a", "l">>>>,
     <<<<"r", "a", "t", "i", " ", "n", "g">>,
       <<"r", "a", "t", "i", "n", "g">>>>,
     <<<<"R", "e", "m", "e", "d", "i", "a", "t", "i", "o", " ", "n">>,
       <<"R", "e", "m", "e", "d", "i", "a", "t", "i", "o", "n">>>> >>

\* Series.str.replace on one value: s.replace(old, new)
str_replace(s, old, new) == replace(s, old, new)

\* the entries a..b of the chain applied to one str, in the order of the
\* table (the first half of the range, then the second half on its result)
RECURSIVE clean_range(_, _, _)
clean_range(s, a, b) ==
  IF a = b THEN str_replace(s, ReplaceTable[a][1], ReplaceTable[a][2])
  ELSE LET mid == (a + b) \div 2
           t == clean_range(s, a, mid)
       IN  IF t = s THEN clean_range(s, mid + 1, b) ELSE clean_range(t, mid + 1, b)

\* the chain applied to one cell: a missing value stays missing
clean_cell(v) == IF v = None THEN None ELSE clean_range(v, 1, Len(ReplaceTable))

\* clean_text_columns(df, ['Body', 'Level_0_Label', 'Level_1_Label', 'Level_2_Label'])
clean_text_columns(df) ==
  [k \in 1..Len(df) |->
     [df[k] EXCEPT !.Body = clean_cell(@),
                   !.Level_0_Label = clean_cell(@),
                   !.Level_1_Label = clean_cell(@),
                   !.Level_2_Label = clean_cell(@)]]

\* ------------------------------------------------------------------------
\* FootnoteSeparator and ParagraphMerger
\* ------------------------------------------------------------------------

\* df['footnote_flag'] = ~df['Level_5_Label'].isna(), for one row
footnote_flag(r) == r.Level_5_Label # None

\* the row with its footnote_flag column
flag_row(r) ==
  [Level_0_Label |-> r.Level_0_Label, Level_1_Label |-> r.Level_1_Label,
   Level_2_Label |-> r.Level_2_Label, Level_3_Label |-> r.Level_3_Label,
   Level_4_Label |-> r.Level_4_Label, Level_5_Label |-> r.Level_5_Label,
   Body |-> r.Body,
   num_of_words |-> r.num_of_words,
   no_fault_detected |-> r.no_fault_detected,
   index |-> r.index,
   footnote_flag |-> footnote_flag(r)]

\* df2 = df.copy(); df2.index = range(1, len(df) + 1)
reindex(df) == [k \in 1..Len(df) |-> [df[k] EXCEPT !.index = k]]

\* condition = (df2['footnote_flag'] == 1), for one row
condition(r) == r.footnote_flag

not_condition(r) == ~condition(r)

\* footnote_df = df2[condition].copy()
footnote_rows(df2) == SelectSeq(df2, condition)

\* df2.drop(df2.index[condition], inplace=True)
body_rows(df2) == SelectSeq(df2, not_condition)

\* str(v) of a label: a missing label renders as "None"
str(v) == IF v = None THEN <<"N", "o", "n", "e">> ELSE v

\* ''.join(map(str, row[['Level_1_Label', 'Level_2_Label', 'Level_3_Label']]))
join_key(row) == str(row.Level_1_Label) \o str(row.Level_2_Label) \o str(row.Level_3_Label)

\* merge_condition without the test on the indices
merge_condition_any_gap(row, m) ==
  /\ row.Body[1] \notin Digit
  /\ join_key(row) = m.previous_concat

\* the condition of the merge, evaluated when previous_text is not None; an
\* optional index is <<>> (None) or <<k>>
merge_condition(row, m) ==
  /\ row.Body[1] \notin Digit
  /\ (Len(m.previous_index) # 0 /\ row.index - m.previous_index[1] # 1)
  /\ join_key(row) = m.previous_concat

\* merged_row that drops the text of the previous row
merged_row_drops_previous(row, previous_text) == row

\* where the merged text is put: the current row's copy with the joined Body
merged_row(row, previous_text) == [row EXCEPT !.Body = previous_text \o row.Body]

\* One pass of "for index, row in df2.iterrows()".  m holds the loop's
\* variables; pos counts the rows read.  row['Body'][0] of an empty Body raises
\* IndexError.
merge_row(row, m) ==
  LET m1 == [m EXCEPT !.row = row, !.pos = m.pos + 1]
      store == [m1 EXCEPT !.previous_text = row.Body,
                          !.previous_row = row,
                          !.previous_index = <<row.index>>,
                          !.previous_concat = join_key(row)]
  IN  IF m.previous_text # None
      THEN IF row.Body = <<>> THEN [m1 EXCEPT !.error = "IndexError"]
           ELSE IF merge_condition(row, m)
           THEN [m1 EXCEPT !.rows_list = Append(m.rows_list,
                                                merged_row(row, m.previous_text)),
                           !.previous_text = None,
                           !.previous_row = None,
                           !.previous_index = <<row.index>>]
           ELSE [store EXCEPT !.rows_list = Append(m.rows_list, m.previous_row)]
      ELSE store

\* the loop variables of the merge pass before the first row; previous_row,
\* previous_concat and row are not bound yet
merge_init ==
  [rows_list |-> <<>>, previous_text |-> None, previous_row |-> None,
   previous_index |-> <<>>, previous_concat |-> None, row |-> None,
   pos |-> 0, error |-> ""]

\* "if previous_text is not None: rows_list.append(row)"
append_last(m) ==
  IF m.previous_text # None THEN Append(m.rows_list, m.row) ELSE m.rows_list

\* concat with the footnote rows first
concat_footnotes_first(new_df, footnote_df) == footnote_df \o new_df

\* pd.concat([new_df, footnote_df])
concat(new_df, footnote_df) == new_df \o footnote_df

\* new_df['no_fault_detected'] = new_df['Body'].apply(starts_with_integer_ends_with_dot)
recompute_no_fault(new_df) ==
  [k \in 1..Len(new_df) |->
     [new_df[k] EXCEPT !.no_fault_detected = starts_with_integer_ends_with_dot(new_df[k].Body)]]


\* ------------------------------------------------------------------------
\* The last columns: full_label and the digit spacing of Body
\* ------------------------------------------------------------------------

\* s.strip(' > '): the characters " " and ">" taken off both ends
strip_label(s) ==
  LET keep == {p \in 1..Len(s) : s[p] \notin {" ", ">"}}
  IN  IF keep = {} THEN <<>>
      ELSE LET a == CHOOSE p \in keep : \A q \in keep : p <= q
               b == CHOOSE p \in keep : \A q \in keep : q <= p
           IN  SubSeq(s, a, b)

\* na_rep='': a missing cell joins as the empty string
na_rep(v) == IF v = None THEN <<>> ELSE v

\* The rows of df (labelled 0..len-1) that str.cat aligns with the label idx of
\* a row of new_df; no row has the label len(df)
aligned(df, idx) == {k \in 1..Len(df) : df[k].index = idx}

\* the cells of the aligned columns of df for the label idx: missing when no
\* row of df has the label
aligned_row(df, idx) ==
  IF aligned(df, idx) = {}
  THEN [Level_1_Label |-> None, Level_2_Label |-> None, Level_3_Label |-> None]
  ELSE LET r == df[CHOOSE k \in aligned(df, idx) : TRUE]
       IN  [Level_1_Label |-> r.Level_1_Label, Level_2_Label |-> r.Level_2_Label,
            Level_3_Label |-> r.Level_3_Label]

\* new_df['Level_0_Label'].str.cat([df['Level_1_Label'], df['Level_2_Label'],
\* df['Level_3_Label']], sep=' > ', na_rep='').str.strip(' > '), for one row
full_label(r, df) ==
  LET sep == <<" ", ">", " ">>
  IN  strip_label(na_rep(r.Level_0_Label)
                  \o sep \o na_rep(aligned_row(df, r.index).Level_1_Label)
                  \o sep \o na_rep(aligned_row(df, r.index).Level_2_Label)
                  \o sep \o na_rep(aligned_row(df, r.index).Level_3_Label))

\* re.sub(r'(\D)(\d)', r'\1 \2', s): a space between a non-digit and the digit
\* after it, the matches taken left to right without overlap
RECURSIVE digit_spacing(_)
digit_spacing(s) ==
  LET hits == {p \in 1..(Len(s) - 1) : s[p] \notin Digit /\ s[p + 1] \in Digit}
  IN  IF hits = {} THEN s
      ELSE LET p == CHOOSE h \in hits : \A g \in hits : h <= g
           IN  SubSeq(s, 1, p) \o <<" ">> \o <<s[p + 1]>>
                 \o digit_spacing(SubSeq(s, p + 2, Len(s)))

\* a row of the final frame
final_row(r, df) ==
  [Level_0_Label |-> r.Level_0_Label, Level_1_Label |-> r.Level_1_Label,
   Level_2_Label |-> r.Level_2_Label, Level_3_Label |-> r.Level_3_Label,
   Level_4_Label |-> r.Level_4_Label, Level_5_Label |-> r.Level_5_Label,
   Body |-> digit_spacing(r.Body),
   num_of_words |-> r.num_of_words,
   no_fault_detected |-> r.no_fault_detected,
   index |-> r.index,
   footnote_flag |-> r.footnote_flag,
   full_label |-> full_label(r, df)]

\* the whole normalization of a Body: the replacement table, then the digit
\* spacing
normalize(t) == digit_spacing(clean_cell(t))

\* ------------------------------------------------------------------------
\* SpellChecker and Embedder: gpt_spellcheck, the batch loop, the embedding cell
\* ------------------------------------------------------------------------

\* def gpt_spellcheck(phrase, max_retries=20, timeout=120)
max_retries == 20

\* the variables of the spellcheck cell; calls, attempted, exhausted and
\* lacking are bookkeeping of what the loop did (calls made for the record in
\* hand, the positions gpt_spellcheck was called for in this run, the
\* positions it returned None for in this run, the positions whose field was
\* empty when the run started)
batch_init ==
  [has_column |-> FALSE, checked_sentence |-> <<>>, runs |-> 0, pos |-> 0,
   retries |-> 0, calls |-> 0, attempted |-> {}, exhausted |-> {},
   lacking |-> {}, error |-> ""]

\* new_df[new_df['checked_sentence'] != ""].index.max(); <<>> stands for NaN
last_successful_index(frame, column) ==
  LET labels == {frame[k].index : k \in {j \in 1..Len(frame) : column[j] # <<>>}}
  IN  IF labels = {} THEN <<>>
      ELSE <<CHOOSE m \in labels : \A l \in labels : l <= m>>

\* start_index = 0 if pd.isna(last_successful_index) else last_successful_index + 1
start_index(last) == IF last = <<>> THEN 0 ELSE last[1] + 1

\* the head of the cell: the column is created when missing, and the loop
\* is set on new_df.iloc[start_index:]
spellcheck_begin(b, frame) ==
  LET column == IF b.has_column THEN b.checked_sentence
                ELSE [k \in 1..Len(frame) |-> <<>>]
  IN  [b EXCEPT !.has_column = TRUE,
                !.checked_sentence = column,
                !.runs = @ + 1,
                !.pos = start_index(last_successful_index(frame, column)),
                !.retries = 0,
                !.attempted = {},
                !.exhausted = {},
                !.lacking = {k \in 1..Len(frame) : column[k] = <<>>}]

\* the text the chat completion returns for a phrase
Responses(phrase) == {phrase}

\* one more pass of "while retries <= max_retries" is entered
spellcheck_enters(b) == b.retries <= max_retries

\* the bookkeeping of one call of the collaborator for the row at b.pos
spellcheck_called(b) ==
  [b EXCEPT !.calls = IF b.retries = 0 THEN 1 ELSE @ + 1,
            !.attempted = @ \cup {b.pos + 1}]

\* the call raises: the exception is printed, retries += 1, time.sleep(1)
spellcheck_failed(b) == [spellcheck_called(b) EXCEPT !.retries = @ + 1]

\* new_df.loc[i, "checked_sentence"] = value
loc_set(frame, column, i, value) ==
  [k \in 1..Len(column) |-> IF frame[k].index = i THEN value ELSE column[k]]

\* the call returns: the row labelled i gets the response, the loop moves on
spellcheck_returned(b, frame, response) ==
  [spellcheck_called(b) EXCEPT
     !.checked_sentence = loc_set(frame, @, frame[b.pos + 1].index, response),
     !.pos = @ + 1,
     !.retries = 0]

\* variant: after a None the loop passes over the record that follows
gave_up_skips_next(b) ==
  [b EXCEPT !.pos = @ + 2, !.retries = 0, !.exhausted = @ \cup {b.pos + 1}]

\* "Maximum retries reached": gpt_spellcheck returns None, nothing is assigned
spellcheck_gave_up(b) ==
  [b EXCEPT !.pos = @ + 1, !.retries = 0, !.exhausted = @ \cup {b.pos + 1}]

\* the columns df has when the embedding cell runs
df_columns ==
  {"Level_0_Label", "Level_1_Label", "Level_2_Label", "Level_3_Label",
   "Level_4_Label", "Level_5_Label", "Body", "num_of_words",
   "no_fault_detected", "footnotes", "footnote_flag"}

\* df["combined"] = "Source: " + df['full_label'] + "; Content: "
\*                  + df['checked_sentence'].str.strip()
combined(b) ==
  IF {"full_label", "checked_sentence"} \subseteq df_columns THEN b
  ELSE [b EXCEPT !.error = "KeyError"]

\* ------------------------------------------------------------------------
\* State
\* ------------------------------------------------------------------------

VARIABLES
  pc,           \* the cell or loop the notebook is in
  lines,        \* process_text_file: f.readlines() plus the sentinel
  cls,          \* process_text_file: the variables of the while loop
  text,         \* the text of the file written by process_text_file and read back
  text_lines,   \* extract_data: text.split('\n')
  ext,          \* extract_data: the variables of the for loop
  df,           \* the DataFrame of extract_data, then cleaned, then flagged
  df2,          \* the body rows the merge pass iterates
  footnote_df,  \* the footnote rows taken out before the merge pass
  mrg,          \* the merge pass: the variables of the for loop
  new_df,       \* the final frame
  v1, v2, res,  \* increment_by_one: its arguments and its result
  bat           \* the spellcheck and embedding cells: column, loop variables

vars == <<pc, lines, cls, text, text_lines, ext, df, df2, footnote_df, mrg,
          new_df, v1, v2, res, bat>>

\* ------------------------------------------------------------------------
\* Inputs
\* ------------------------------------------------------------------------

\* the longest input drawn from the pools, in lines
MaxLines == 3
MaxTextLines == 3
\* the largest numeral component drawn for increment_by_one, besides 9, 10, 11
MaxNum == 3

SeqsUpTo(S, n) == UNION {[1..k -> S] : k \in 0..n}

\* raw lines as f.readlines() returns them
RawPool ==
  { <<"\n">>,
    <<"A", "a", ".", "\n">>,
    <<"b", ".", "\n">>,
    <<"1", " ", "I", "\n">>,
    <<"1", ".", "1", " ", "A", "\n">>,
    <<"1", ".", "2", " ", "B", "\n">>,
    <<"1", ".", "1", ".", "1", " ", "C", "\n">>,
    <<"1", ".", " ", "P", "\n">>,
    <<"1", " ", " ", "F", ".", "\n">>,
    <<"1", " ", " ", " ", "G", ".", "\n">> }

\* the end-to-end scenario and the footnote scenario
ScenarioOverview ==
  << <<"3", " ", "O", "V", "E", "R", "V", "I", "E", "W", "\n">>,
     <<"\n">>,
     <<"3", ".", "1", " ", "S", "c", "o", "p", "e", "\n">>,
     <<"T", "h", "i", "s", " ", "s", "e", "c", "t", "i", "o", "n", " ", "e", "x", "p", "l", "a", "i", "n", "s", " ", "s", "c", "o", "p", "e", ".", "\n">> >>

ScenarioFootnote ==
  << <<"1", "2", " ", " ", "C", "o", "m", "p", "e", "t", "e", "n", "t", " ", "a", "u", "t", "h", "o", "r", "i", "t", "i", "e", "s", " ", "m", "u", "s", "t", " ", "v", "e", "r", "i", "f", "y", ".", "\n">> >>

RawInputs == SeqsUpTo(RawPool, MaxLines) \cup {ScenarioOverview, ScenarioFootnote}

\* lines of a marked-up text as extract_data may be given them
TextPool ==
  { <<>>,
    <<"A", "a", ".">>,
    <<"b", ".">>,
    <<"e", ".", "g", ".">>,
    <<"i", ".", "e", ".">>,
    <<"1", " ", "a", ".", "2">>,
    <<"#", " ", "T">>,
    <<"#", "#", " ", "1", " ", "I">>,
    <<"#", "#", "#", " ", "1", ".", "1", " ", "A">>,
    <<"#", "#", "#", "#", " ", "1", ".", "1", ".", "1", " ", "C">>,
    <<"#", "#", "#", "#", "#", " ", "D">>,
    <<"F", "O", "O", "T", "N", "O", "T", "E", " ", "1", " ", " ", "F", ".">> }

TextInputs == {join(ls, NL) : ls \in SeqsUpTo(TextPool, MaxTextLines)}

\* the texts whose final frame the spellcheck cell is run on, and how many
\* times the cell is run
MaxBatchLines == 3
MaxRuns == 2

BatchPool ==
  { <<>>,
    <<"A", "a", ".">>,
    <<"b", ".">>,
    <<"#", "#", " ", "1", " ", "I">>,
    <<"F", "O", "O", "T", "N", "O", "T", "E", " ", "1", " ", " ", "F", ".">> }

BatchInputs == {join(ls, NL) : ls \in SeqsUpTo(BatchPool, MaxBatchLines)}

\* frames given to the merge pass: up to MaxRows records as extract_data emits
\* them, cleaned: body records and footnote records, under no heading or under
\* the heading "1 I" (a record under no heading never follows one under it)
MaxRows == 5

DataPool ==
  LET rec(l1, l5, body) ==
        [Level_0_Label |-> None, Level_1_Label |-> l1, Level_2_Label |-> None,
         Level_3_Label |-> None, Level_4_Label |-> None, Level_5_Label |-> l5,
         Body |-> body]
  IN  {rec(l1, None, body) :
         l1 \in {None, <<"1", " ", "I">>},
         body \in {<<"b", ".">>, <<"1", " ", "x">>}}
      \cup {rec(l1, <<"F", "o", "o", "t", "n", "o", "t", "e", " ", "1">>,
                 <<"F", "O", "O", "T", "N", "O", "T", "E", " ", "1", " ", "F", ".">>) :
               l1 \in {None, <<"1", " ", "I">>}}

MergeFrames ==
  {[k \in 1..Len(ds) |-> flag_row(data_frame(ds)[k])] :
     ds \in {d \in SeqsUpTo(DataPool, MaxRows) :
               \A k \in 1..(Len(d) - 1) :
                 d[k].Level_1_Label # None => d[k + 1].Level_1_Label # None}}

\* texts given to the normalization: every string of up to MaxChars
\* characters, and three longer ones
MaxChars == 3

NormalizeInputs ==
  SeqsUpTo({" ", "-", "(", "a", "1"}, MaxChars)
  \cup { <<"t", " ", "h", "e">>,
         <<"d", "a", "t", "a", "2", "4">>,
         <<"c", "y", "c", "l", "e", "5">> }

\* str(n) for 0 <= n <= 99
DigitChar(d) ==
  CASE d = 0 -> "0" [] d = 1 -> "1" [] d = 2 -> "2" [] d = 3 -> "3" [] d = 4 -> "4"
    [] d = 5 -> "5" [] d = 6 -> "6" [] d = 7 -> "7" [] d = 8 -> "8" [] d = 9 -> "9"

NumStr(n) == IF n < 10 THEN <<DigitChar(n)>> ELSE <<DigitChar(n \div 10), DigitChar(n % 10)>>

\* dotted numerals of one to three parts, and the empty string
Components == (0..MaxNum) \cup {9, 10, 11}
Numerals ==
  {<<>>}
  \cup {NumStr(a) : a \in Components}
  \cup {NumStr(a) \o <<".">> \o NumStr(b) : a \in Components, b \in Components}
  \cup {NumStr(a) \o <<".">> \o NumStr(b) \o <<".">> \o NumStr(c) :
          a \in Components, b \in Components, c \in Components}

\* ------------------------------------------------------------------------
\* Initial states
\* ------------------------------------------------------------------------

\* the whole notebook from the raw lines on
Init ==
  /\ pc = "classify"
  /\ lines \in {raw \o <<Sentinel>> : raw \in RawInputs}
  /\ cls = classify_init
  /\ text = <<>>
  /\ text_lines = <<>>
  /\ ext = extract_init
  /\ df = <<>>
  /\ df2 = <<>>
  /\ footnote_df = <<>>
  /\ mrg = merge_init
  /\ new_df = <<>>
  /\ v1 = <<>>
  /\ v2 = <<>>
  /\ res = FALSE
  /\ bat = batch_init

\* the notebook from the (reviewed) marked-up text on
InitExtract ==
  /\ pc = "written"
  /\ lines = <<>>
  /\ cls = classify_init
  /\ text \in TextInputs
  /\ text_lines = <<>>
  /\ ext = extract_init
  /\ df = <<>>
  /\ df2 = <<>>
  /\ footnote_df = <<>>
  /\ mrg = merge_init
  /\ new_df = <<>>
  /\ v1 = <<>>
  /\ v2 = <<>>
  /\ res = FALSE
  /\ bat = batch_init

\* the notebook from the marked-up text on, through the collaborator cells
InitBatch ==
  /\ pc = "written"
  /\ lines = <<>>
  /\ cls = classify_init
  /\ text \in BatchInputs
  /\ text_lines = <<>>
  /\ ext = extract_init
  /\ df = <<>>
  /\ df2 = <<>>
  /\ footnote_df = <<>>
  /\ mrg = merge_init
  /\ new_df = <<>>
  /\ v1 = <<>>
  /\ v2 = <<>>
  /\ res = FALSE
  /\ bat = batch_init

\* the merge pass on a flagged frame
InitMerge ==
  /\ pc = "separate"
  /\ lines = <<>>
  /\ cls = classify_init
  /\ text = <<>>
  /\ text_lines = <<>>
  /\ ext = extract_init
  /\ df \in MergeFrames
  /\ df2 = <<>>
  /\ footnote_df = <<>>
  /\ mrg = merge_init
  /\ new_df = <<>>
  /\ v1 = <<>>
  /\ v2 = <<>>
  /\ res = FALSE
  /\ bat = batch_init

\* the normalization of one text
InitNormalize ==
  /\ pc = "normalize"
  /\ lines = <<>>
  /\ cls = classify_init
  /\ text = <<>>
  /\ text_lines = <<>>
  /\ ext = extract_init
  /\ df = <<>>
  /\ df2 = <<>>
  /\ footnote_df = <<>>
  /\ mrg = merge_init
  /\ new_df = <<>>
  /\ v1 \in NormalizeInputs
  /\ v2 = <<>>
  /\ res = <<>>
  /\ bat = batch_init

\* one call of increment_by_one
InitIncrement ==
  /\ pc = "call"
  /\ lines = <<>>
  /\ cls = classify_init
  /\ text = <<>>
  /\ text_lines = <<>>
  /\ ext = extract_init
  /\ df = <<>>
  /\ df2 = <<>>
  /\ footnote_df = <<>>
  /\ mrg = merge_init
  /\ new_df = <<>>
  /\ v1 \in Numerals
  /\ v2 \in Numerals
  /\ res = FALSE
  /\ bat = batch_init

\* ------------------------------------------------------------------------
\* Actions
\* ------------------------------------------------------------------------

\* one pass of the while loop of process_text_file
ClassifyLine ==
  /\ pc = "classify"
  /\ cls.i < Len(lines) - 1
  /\ cls' = classify_line(lines, cls)
  /\ pc' = IF cls'.error # "" THEN "crashed" ELSE "classify"
  /\ UNCHANGED <<lines, text, text_lines, ext, df, df2, footnote_df, mrg, new_df,
                 v1, v2, res, bat>>

\* the loop is over: the file is written
ClassifyEnd ==
  /\ pc = "classify"
  /\ ~(cls.i < Len(lines) - 1)
  /\ text' = writelines(cls.processed_lines)
  /\ pc' = "written"
  /\ UNCHANGED <<lines, cls, text_lines, ext, df, df2, footnote_df, mrg, new_df,
                 v1, v2, res, bat>>

\* the file is read back and extract_data starts
ExtractBegin ==
  /\ pc = "written"
  /\ text_lines' = split(text, "\n")
  /\ ext' = extract_init
  /\ pc' = "extract"
  /\ UNCHANGED <<lines, cls, text, df, df2, footnote_df, mrg, new_df, v1, v2, res, bat>>

\* one pass of the for loop of extract_data
ExtractLine ==
  /\ pc = "extract"
  /\ ext.i < Len(text_lines) - 1
  /\ ext' = extract_line(text_lines, ext)
  /\ pc' = IF ext'.error # "" THEN "crashed" ELSE "extract"
  /\ UNCHANGED <<lines, cls, text, text_lines, df, df2, footnote_df, mrg, new_df,
                 v1, v2, res, bat>>

\* the loop is over: the last buffer is flushed and the DataFrame is built
ExtractEnd ==
  /\ pc = "extract"
  /\ ~(ext.i < Len(text_lines) - 1)
  /\ df' = data_frame(flush_buffer(ext))
  /\ pc' = "clean"
  /\ UNCHANGED <<lines, cls, text, text_lines, ext, df2, footnote_df, mrg, new_df,
                 v1, v2, res, bat>>

\* df = clean_text_columns(df, columns_to_clean)
CleanColumns ==
  /\ pc = "clean"
  /\ df' = clean_text_columns(df)
  /\ pc' = "flag"
  /\ UNCHANGED <<lines, cls, text, text_lines, ext, df2, footnote_df, mrg, new_df,
                 v1, v2, res, bat>>

\* the footnote_flag column
FootnoteFlag ==
  /\ pc = "flag"
  /\ df' = [k \in 1..Len(df) |-> flag_row(df[k])]
  /\ pc' = "separate"
  /\ UNCHANGED <<lines, cls, text, text_lines, ext, df2, footnote_df, mrg, new_df,
                 v1, v2, res, bat>>

\* df2 is re-indexed from 1 and the footnote rows are taken out
MergeBegin ==
  /\ pc = "separate"
  /\ footnote_df' = footnote_rows(reindex(df))
  /\ df2' = body_rows(reindex(df))
  /\ mrg' = merge_init
  /\ pc' = "merge"
  /\ UNCHANGED <<lines, cls, text, text_lines, ext, df, new_df, v1, v2, res, bat>>

\* one pass of the for loop of the merge pass
MergeRow ==
  /\ pc = "merge"
  /\ mrg.pos < Len(df2)
  /\ mrg' = merge_row(df2[mrg.pos + 1], mrg)
  /\ pc' = IF mrg'.error # "" THEN "crashed" ELSE "merge"
  /\ UNCHANGED <<lines, cls, text, text_lines, ext, df, df2, footnote_df, new_df,
                 v1, v2, res, bat>>

\* the loop is over: the pending row, the footnotes, the no-fault column
MergeEnd ==
  /\ pc = "merge"
  /\ ~(mrg.pos < Len(df2))
  /\ new_df' = recompute_no_fault(concat(append_last(mrg), footnote_df))
  /\ pc' = "merged"
  /\ UNCHANGED <<lines, cls, text, text_lines, ext, df, df2, footnote_df, mrg,
                 v1, v2, res, bat>>

\* the full_label column and the digit spacing of Body
FinalColumns ==
  /\ pc = "merged"
  /\ new_df' = [k \in 1..Len(new_df) |-> final_row(new_df[k], df)]
  /\ pc' = "done"
  /\ UNCHANGED <<lines, cls, text, text_lines, ext, df, df2, footnote_df, mrg,
                 v1, v2, res, bat>>

\* the spellcheck cell is run, for the first time or again
SpellcheckBegin ==
  /\ pc \in {"done", "checked"}
  /\ bat.runs < MaxRuns
  /\ bat' = spellcheck_begin(bat, new_df)
  /\ pc' = "spellcheck"
  /\ UNCHANGED <<lines, cls, text, text_lines, ext, df, df2, footnote_df, mrg,
                 new_df, v1, v2, res>>

\* gpt_spellcheck: a call of the collaborator raises
SpellcheckRaises ==
  /\ pc = "spellcheck"
  /\ bat.pos < Len(new_df)
  /\ spellcheck_enters(bat)
  /\ bat' = spellcheck_failed(bat)
  /\ UNCHANGED pc
  /\ UNCHANGED <<lines, cls, text, text_lines, ext, df, df2, footnote_df, mrg,
                 new_df, v1, v2, res>>

\* gpt_spellcheck: a call of the collaborator returns, the result is stored
SpellcheckReturns ==
  /\ pc = "spellcheck"
  /\ bat.pos < Len(new_df)
  /\ spellcheck_enters(bat)
  /\ \E response \in Responses(new_df[bat.pos + 1].Body) :
       bat' = spellcheck_returned(bat, new_df, response)
  /\ UNCHANGED pc
  /\ UNCHANGED <<lines, cls, text, text_lines, ext, df, df2, footnote_df, mrg,
                 new_df, v1, v2, res>>

\* gpt_spellcheck leaves its while loop and returns None
SpellcheckGivesUp ==
  /\ pc = "spellcheck"
  /\ bat.pos < Len(new_df)
  /\ ~spellcheck_enters(bat)
  /\ bat' = spellcheck_gave_up(bat)
  /\ UNCHANGED pc
  /\ UNCHANGED <<lines, cls, text, text_lines, ext, df, df2, footnote_df, mrg,
                 new_df, v1, v2, res>>

\* the for loop over new_df.iloc[start_index:] is exhausted
SpellcheckEnd ==
  /\ pc = "spellcheck"
  /\ bat.pos >= Len(new_df)
  /\ pc' = "checked"
  /\ UNCHANGED bat
  /\ UNCHANGED <<lines, cls, text, text_lines, ext, df, df2, footnote_df, mrg,
                 new_df, v1, v2, res>>

\* the embedding cell is run: its first statement builds df["combined"]
EmbeddingCell ==
  /\ pc = "checked"
  /\ bat' = combined(bat)
  /\ pc' = IF bat'.error # "" THEN "crashed" ELSE "embedding"
  /\ UNCHANGED <<lines, cls, text, text_lines, ext, df, df2, footnote_df, mrg,
                 new_df, v1, v2, res>>

\* the text v1 is normalized
Normalize ==
  /\ pc = "normalize"
  /\ v2' = normalize(v1)
  /\ pc' = "normalized"
  /\ UNCHANGED <<lines, cls, text, text_lines, ext, df, df2, footnote_df, mrg,
                 new_df, v1, res, bat>>

\* the normalized text v2 is normalized again
NormalizeAgain ==
  /\ pc = "normalized"
  /\ res' = normalize(v2)
  /\ pc' = "renormalized"
  /\ UNCHANGED <<lines, cls, text, text_lines, ext, df, df2, footnote_df, mrg,
                 new_df, v1, v2, bat>>

\* increment_by_one(v1, v2) returns
CallIncrement ==
  /\ pc = "call"
  /\ res' = increment_by_one(v1, v2)
  /\ pc' = "returned"
  /\ UNCHANGED <<lines, cls, text, text_lines, ext, df, df2, footnote_df, mrg,
                 new_df, v1, v2, bat>>

Next ==
  \/ ClassifyLine
  \/ ClassifyEnd
  \/ ExtractBegin
  \/ ExtractLine
  \/ ExtractEnd
  \/ CleanColumns
  \/ FootnoteFlag
  \/ MergeBegin
  \/ MergeRow
  \/ MergeEnd
  \/ FinalColumns

NextExtract ==
  \/ ExtractBegin
  \/ ExtractLine
  \/ ExtractEnd
  \/ CleanColumns
  \/ FootnoteFlag
  \/ MergeBegin
  \/ MergeRow
  \/ MergeEnd
  \/ FinalColumns

NextBatch ==
  \/ ExtractBegin
  \/ ExtractLine
  \/ ExtractEnd
  \/ CleanColumns
  \/ FootnoteFlag
  \/ MergeBegin
  \/ MergeRow
  \/ MergeEnd
  \/ FinalColumns
  \/ SpellcheckBegin
  \/ SpellcheckRaises
  \/ SpellcheckReturns
  \/ SpellcheckGivesUp
  \/ SpellcheckEnd
  \/ EmbeddingCell

NextMerge == MergeBegin \/ MergeRow \/ MergeEnd \/ FinalColumns

NextIncrement == CallIncrement

NextNormalize == Normalize \/ NormalizeAgain

Spec == Init /\ [][Next]_vars

SpecExtract == InitExtract /\ [][NextExtract]_vars

SpecBatch == InitBatch /\ [][NextBatch]_vars

SpecMerge == InitMerge /\ [][NextMerge]_vars

SpecIncrement == InitIncrement /\ [][NextIncrement]_vars

SpecNormalize == InitNormalize /\ [][NextNormalize]_vars


\* ------------------------------------------------------------------------
\* Properties of process_text_file
\* ------------------------------------------------------------------------

\* the line the while loop is at, stripped
CurrentLine == strip(lines[cls.i + 1])

\* the numeral a numbered line starts with: the text before its first space
NumeralOf(s) ==
  SubSeq(s, 1, (CHOOSE p \in 1..(Len(s) + 1) :
                  /\ At(s, p) \in {" ", ""}
                  /\ \A q \in 1..(p - 1) : s[q] # " ") - 1)

\* the line the loop is at has the shape of a two-part or three-part heading
\* and its numeral does not follow the last numeral seen at its depth
FailsNumbering ==
  \/ /\ match_two_part(CurrentLine)
     /\ ~increment_by_one(cls.last_seen_sub, NumeralOf(CurrentLine))
  \/ /\ match_three_part(CurrentLine)
     /\ ~increment_by_one(cls.last_seen_sub_sub, NumeralOf(CurrentLine))

\* the pass of the loop that is taken wrote the line as it is, unmarked
WrittenAsBody == cls'.processed_lines = Append(cls.processed_lines, CurrentLine \o NL)

\* C3: a line with the shape of a two-part or three-part heading whose numeral
\* fails increment_by_one against the last numeral seen at its depth is written
\* as a Body line, never as a heading.  (Stated for the passes that complete.)
C3_FailedHeadingIsBody ==
  [][(/\ pc = "classify"
      /\ cls.i < Len(lines) - 1
      /\ cls'.i > cls.i
      /\ cls'.error = ""
      /\ FailsNumbering) => WrittenAsBody]_vars

\* the same for the two-part shape alone
TwoPartFailedHeadingIsBody ==
  [][(/\ pc = "classify"
      /\ cls.i < Len(lines) - 1
      /\ cls'.i > cls.i
      /\ cls'.error = ""
      /\ match_two_part(CurrentLine)
      /\ ~increment_by_one(cls.last_seen_sub, NumeralOf(CurrentLine))) => WrittenAsBody]_vars

\* C4: process_text_file raises no exception, whatever the lines.
C4_ClassifierNeverRaises == cls.error = ""

\* the items of origin, in order: the input lines the output holds
RECURSIVE Flatten(_)
Flatten(ss) == IF ss = <<>> THEN <<>> ELSE ss[1] \o Flatten(Tail(ss))

HeadingMarks == {MarkMain, MarkSub, MarkSubSub}

\* every input line but the sentinel is in the output once, in input order:
\* as its own output line (marked or not) or as the continuation joined to the
\* numbered heading right before it; the other output lines are blank
LinesAccounted ==
  /\ Flatten(cls.origin) = [k \in 1..(Len(lines) - 1) |-> k - 1]
  /\ \A k \in 1..Len(cls.processed_lines) :
       LET o == cls.origin[k]
           out == cls.processed_lines[k]
       IN  CASE Len(o) = 0 -> out = NL
             [] Len(o) = 1 ->
                  \E m \in HeadingMarks \cup {MarkTitle, MarkFootnote, <<>>} :
                    out = m \o strip(lines[o[1] + 1]) \o NL
             [] OTHER ->
                  /\ o[2] = o[1] + 1
                  /\ \E m \in HeadingMarks :
                       out = m \o strip(lines[o[1] + 1]) \o <<" ">>
                               \o strip(lines[o[2] + 1]) \o NL

\* C9: once process_text_file is over, every input line has contributed exactly
\* once to its output, in input order, as its own output line or as the
\* continuation absorbed by the numbered heading right before it.
C9_EveryLineOnce == (pc # "classify") => LinesAccounted

\* the same for the runs in which process_text_file raises nothing
EveryLineOnceUnlessRaised == (pc # "classify" /\ cls.error = "") => LinesAccounted

\* a number, two or more whitespace characters, then an uppercase letter or a
\* quote character
FootnoteShaped(s) ==
  LET a == DigitRunEnd(s, 1)
      w == WhiteRunEnd(s, a)
  IN  a > 1 /\ w - a >= 2 /\ At(s, w) \in FootnoteOpen

\* the number a footnote line starts with
FootnoteId(s) == SubSeq(s, 1, DigitRunEnd(s, 1) - 1)

\* the input lines (0-based, the sentinel left out) shaped as footnotes of id
FootnoteLines(id) ==
  {i \in 0..(Len(lines) - 2) :
     FootnoteShaped(strip(lines[i + 1])) /\ FootnoteId(strip(lines[i + 1])) = id}

\* the records of the final frame labelled as footnote id that lie in the
\* footnote partition, after every body record
FootnoteRecords(id) ==
  {k \in 1..Len(new_df) :
     /\ new_df[k].Level_5_Label = footnote_label(id)
     /\ \A b \in k..Len(new_df) : new_df[b].footnote_flag}

\* C10: a line made of a number, two or more spaces and an uppercase letter or
\* quote character is written as a FOOTNOTE line with the number as its id,
\* and its record carries the label "Footnote <id>" and lies in the footnote
\* partition after all body records.
C10_FootnoteLineGetsFootnoteRecord ==
  pc = "done" =>
    \A i \in 0..(Len(lines) - 2) :
      LET s == strip(lines[i + 1])
      IN  FootnoteShaped(s) =>
            /\ \E k \in 1..Len(cls.processed_lines) :
                 /\ cls.origin[k] = <<i>>
                 /\ cls.processed_lines[k] = MarkFootnote \o s \o NL
            /\ Cardinality(FootnoteRecords(FootnoteId(s)))
                 >= Cardinality(FootnoteLines(FootnoteId(s)))

\* the run of the end-to-end scenario
OverviewRun == lines = ScenarioOverview \o <<Sentinel>>

\* C5 as stated: on "3 OVERVIEW", "", "3.1 Scope", "This section explains
\* scope." the first line is a main heading, the third a sub-heading, and the
\* output is one record with the Body "This section explains scope.", four
\* words, no footnote flag, Level1 "OVERVIEW" and Level2 "Scope".
C5_OverviewScenario ==
  (pc = "done" /\ OverviewRun) =>
    /\ \E k \in 1..Len(cls.processed_lines) :
         cls.processed_lines[k] = MarkMain \o strip(ScenarioOverview[1]) \o NL
    /\ \E k \in 1..Len(cls.processed_lines) :
         cls.processed_lines[k] = MarkSub \o strip(ScenarioOverview[3]) \o NL
    /\ Len(new_df) = 1
    /\ new_df[1].Body = strip(ScenarioOverview[4])
    /\ new_df[1].num_of_words = 4
    /\ new_df[1].footnote_flag = FALSE
    /\ new_df[1].Level_1_Label = <<"O", "V", "E", "R", "V", "I", "E", "W">>
    /\ new_df[1].Level_2_Label = <<"S", "c", "o", "p", "e">>

\* C5 as the code runs it: "3 OVERVIEW" is followed by a blank line and is
\* written as a Body line, "3.1 Scope" is a sub-heading, and the output is two
\* records: the Body "3 OVERVIEW" with no label and one word, then the Body
\* "This section explains scope." with four words, no footnote flag, no Level1
\* and the Level2 "3.1 Scope".
C5_OverviewScenarioAsCoded ==
  (pc = "done" /\ OverviewRun) =>
    /\ cls.processed_lines[1] = strip(ScenarioOverview[1]) \o NL
    /\ \E k \in 1..Len(cls.processed_lines) :
         cls.processed_lines[k] = MarkSub \o strip(ScenarioOverview[3]) \o NL
    /\ Len(new_df) = 2
    /\ new_df[1].Body = strip(ScenarioOverview[1])
    /\ new_df[1].num_of_words = 1
    /\ new_df[1].footnote_flag = FALSE
    /\ new_df[1].Level_1_Label = None
    /\ new_df[1].Level_2_Label = None
    /\ new_df[2].Body = strip(ScenarioOverview[4])
    /\ new_df[2].num_of_words = 4
    /\ new_df[2].footnote_flag = FALSE
    /\ new_df[2].Level_1_Label = None
    /\ new_df[2].Level_2_Label = strip(ScenarioOverview[3])

\* C5: the scenario ran to the end and left two records.
C5_Witness == pc = "done" /\ OverviewRun /\ Len(new_df) = 2

\* ------------------------------------------------------------------------
\* Properties of extract_data
\* ------------------------------------------------------------------------

\* the number of "#" a line starts with
LeadingHashes(s) ==
  CHOOSE n \in 0..Len(s) :
    /\ \A p \in 1..n : s[p] = "#"
    /\ At(s, n + 1) # "#"

\* the line extract_data read last, stripped
LastRead == strip(text_lines[ext.i])

\* extract_data has just read a heading line
HeadingJustRead ==
  /\ pc = "extract"
  /\ ext.i > 0
  /\ ~StartsWith(LastRead, MarkFOOTNOTE)
  /\ LeadingHashes(LastRead) > 0

\* the depth 0..4 of the heading line read last: five or more "#" are depth 4
DepthJustRead == (IF LeadingHashes(LastRead) > 5 THEN 5 ELSE LeadingHashes(LastRead)) - 1

\* C1: right after extract_data reads a heading line of depth N, the label of
\* level N is set and the label of every deeper level, the footnote label
\* (level 5) included, is None, whatever lines were read before.
C1_HeadingResetsDeeperLabels ==
  HeadingJustRead =>
    /\ ext.level[DepthJustRead + 1] # None
    /\ \A m \in (DepthJustRead + 1)..5 : ext.level[m + 1] = None

\* C1: a heading line was read while the footnote line before it was still in
\* the buffer with its label set, and the label is gone.
C1_Witness ==
  /\ HeadingJustRead
  /\ ext.i > 1
  /\ StartsWith(strip(text_lines[ext.i - 1]), MarkFOOTNOTE)
  /\ ext.body_buffer # <<>>
  /\ DepthJustRead < 4
  /\ ext.level[6] = None

\* ------------------------------------------------------------------------
\* Properties of the merge pass and of the final frame
\* ------------------------------------------------------------------------

\* the rows the merge pass has put out: rows_list while the loop runs, the
\* body part of new_df once the pending row and the footnotes are appended
MergeOutput ==
  IF pc = "merge" THEN mrg.rows_list
  ELSE IF pc = "merged" THEN SubSeq(new_df, 1, Len(new_df) - Len(footnote_df))
  ELSE <<>>

\* the place in df2 of the row with the index x
RowAt(x) == CHOOSE p \in 1..Len(df2) : df2[p].index = x

\* an output row whose Body is not the Body it had in df2
IsMerged(r) == r.Body # df2[RowAt(r.index)].Body

\* the Body values of a sequence of rows, concatenated
RECURSIVE Bodies(_)
Bodies(rows) == IF rows = <<>> THEN <<>> ELSE rows[1].Body \o Bodies(Tail(rows))

HoldsBodyOf(k, p) ==
  \/ MergeOutput[k].index = df2[p].index
  \/ /\ IsMerged(MergeOutput[k])
     /\ p < Len(df2)
     /\ MergeOutput[k].index = df2[p + 1].index

\* C8: the merge pass loses and duplicates no text: every input row's Body is
\* in the output exactly once, as the Body of its own row or as the first part
\* of the row merged into it (predecessor's Body, then the merged row's Body,
\* nothing between), and the output Bodies concatenated in order equal the input
\* Bodies concatenated in order.
C8_MergeKeepsText ==
  pc = "merged" =>
    /\ \A k \in 1..Len(MergeOutput) :
         /\ \E p \in 1..Len(df2) : df2[p].index = MergeOutput[k].index
         /\ IsMerged(MergeOutput[k]) =>
              /\ RowAt(MergeOutput[k].index) > 1
              /\ MergeOutput[k].Body = df2[RowAt(MergeOutput[k].index) - 1].Body
                                         \o df2[RowAt(MergeOutput[k].index)].Body
    /\ \A p \in 1..Len(df2) :
         Cardinality({k \in 1..Len(MergeOutput) : HoldsBodyOf(k, p)}) = 1
    /\ Bodies(MergeOutput) = Bodies(df2)

\* C8: the merge pass is over, it read several rows and put out fewer.
C8_Witness ==
  /\ pc = "merged"
  /\ Len(df2) >= 2
  /\ Len(MergeOutput) < Len(df2)
  /\ Bodies(MergeOutput) = Bodies(df2)

\* C6: in the final frame every row without the footnote flag precedes every
\* row with it, the rows of each part are in increasing index order, and a row
\* has the flag exactly when its Level5 label is set.
C6_FootnotesLast ==
  pc = "done" =>
    /\ \A k \in 1..Len(new_df) :
         new_df[k].footnote_flag <=> (new_df[k].Level_5_Label # None)
    /\ \A a \in 1..Len(new_df) : \A b \in (a + 1)..Len(new_df) :
         /\ ~(new_df[a].footnote_flag /\ ~new_df[b].footnote_flag)
         /\ (new_df[a].footnote_flag = new_df[b].footnote_flag)
              => new_df[a].index < new_df[b].index

\* C6: the final frame holds a footnote row placed after a body row that came
\* later in the text.
C6_Witness ==
  /\ pc = "done"
  /\ \E a \in 1..Len(new_df) : \E b \in (a + 1)..Len(new_df) :
       /\ ~new_df[a].footnote_flag
       /\ new_df[b].footnote_flag
       /\ new_df[b].index < new_df[a].index

\* ------------------------------------------------------------------------
\* Properties of increment_by_one
\* ------------------------------------------------------------------------

\* the positions at which the candidate is one above the previous numeral
Advanced(p, c) == {k \in 1..Len(p) : c[k] - p[k] = 1}

\* the candidate c is a valid single step from p
SingleStep(p, c) ==
  /\ Len(p) = Len(c)
  /\ \A k \in 1..Len(p) : c[k] >= p[k] /\ c[k] - p[k] <= 1
  /\ \A k \in 1..Len(p) : c[k] = p[k] => \A j \in 1..(k - 1) : j \notin Advanced(p, c)
  /\ Cardinality(Advanced(p, c)) = 1

\* C2: increment_by_one(v1, v2) is true when either numeral is empty; otherwise
\* it is true exactly when the two have the same length, no position of v2 is
\* below v1 or more than one above it, no position equal in both follows a
\* position that advanced, and exactly one position advanced.  1.2 -> 1.3 is
\* accepted, 1.2 -> 2.3 and 1.2 -> 1.2 are rejected.
C2_IncrementByOne ==
  pc = "returned" =>
    /\ res = (\/ v1 = <<>>
              \/ v2 = <<>>
              \/ SingleStep(version_to_list(v1), version_to_list(v2)))
    /\ (v1 = <<"1", ".", "2">> /\ v2 = <<"1", ".", "3">>) => res
    /\ (v1 = <<"1", ".", "2">> /\ v2 = <<"2", ".", "3">>) => ~res
    /\ (v1 = <<"1", ".", "2">> /\ v2 = <<"1", ".", "2">>) => ~res
    /\ (v1 = <<>> /\ v2 = <<"1", ".", "3">>) => res

\* C2: a two-digit step, 1.9 -> 1.10, was accepted.
C2_Witness ==
  /\ pc = "returned"
  /\ v1 = <<"1", ".", "9">>
  /\ v2 = <<"1", ".", "1", "0">>
  /\ res

\* ------------------------------------------------------------------------
\* Boundary inputs
\* ------------------------------------------------------------------------

\* the run on no lines at all: the sentinel is the only line
EmptyRun == lines = <<Sentinel>>

\* C11: on the empty input process_text_file writes no line, extract_data
\* builds no record, and no later step adds one or raises.
C11_EmptyInputNoRecords ==
  EmptyRun =>
    /\ pc # "crashed"
    /\ cls.processed_lines = <<>>
    /\ ext.data = <<>>
    /\ df = <<>>
    /\ new_df = <<>>
    /\ pc \notin {"classify"} => text = <<>>

\* C11: the run on the empty input went through every step.
C11_Witness == EmptyRun /\ pc = "done" /\ df = <<>> /\ new_df = <<>>

\* ------------------------------------------------------------------------
\* Properties of the spellcheck and embedding cells
\* ------------------------------------------------------------------------

\* C12: for one record the collaborator is called at most max_retries times
\* (20 with the default), also when every call fails.
C12_AtMostMaxRetriesCalls == bat.calls <= max_retries

\* what the code does: one call more, retries running from 0 to max_retries
CallsWithinRetriesPlusOne == bat.calls <= max_retries + 1

\* the step in which gpt_spellcheck returns None for the record at bat.pos
GivesUpStep ==
  /\ pc = "spellcheck"
  /\ bat.pos < Len(new_df)
  /\ ~spellcheck_enters(bat)
  /\ bat'.exhausted # bat.exhausted

\* the positions after p in the frame
LaterRecords(p) == (p + 1)..Len(new_df)

\* C13: when the retries for a record are exhausted nothing is written (the
\* record's field stays empty and no other field changes), the loop moves to
\* the next record, and by the end of the run every later record was attempted.
C13_ExhaustedLeavesFieldEmpty ==
  /\ [][GivesUpStep =>
          /\ bat'.checked_sentence = bat.checked_sentence
          /\ bat'.pos = bat.pos + 1]_vars
  /\ [](pc = "checked" =>
          \A p \in bat.exhausted :
            /\ p \in bat.lacking => bat.checked_sentence[p] = <<>>
            /\ LaterRecords(p) \subseteq bat.attempted)

C13_Witness ==
  /\ pc = "checked"
  /\ \E p \in bat.exhausted :
       /\ bat.checked_sentence[p] = <<>>
       /\ LaterRecords(p) # {}
       /\ \E q \in LaterRecords(p) : bat.checked_sentence[q] # <<>>

\* a run of the cell after a run that left some field empty has ended
RerunEnded == pc = "checked" /\ bat.runs > 1 /\ bat.lacking # {}

\* C14: a re-run after a partial run attempts every record whose field was
\* still empty when it started; none of them is skipped.
C14_RerunAttemptsEveryEmptyField == RerunEnded => bat.lacking \subseteq bat.attempted

\* what the code does: a re-run attempts the positions from the largest index
\* label holding a result, plus one, to the end of the frame
ResumePositions ==
  LET last == last_successful_index(new_df,
                [k \in 1..Len(new_df) |->
                   IF k \in bat.lacking THEN <<>> ELSE <<"+">>])
  IN  {p \in 1..Len(new_df) : p > start_index(last)}

RerunAttemptsFromLabel == RerunEnded => bat.attempted = ResumePositions

\* the embedding cell was run on the final frame
EmbeddingCellRan == bat.runs > 0 /\ pc \notin {"spellcheck", "checked"}

\* C15: the embedding cell runs its batch over the records (a record whose
\* retries are exhausted keeps an empty field and the next record is taken):
\* once the cell is run, it has not raised.
C15_EmbeddingBatchProceeds == EmbeddingCellRan => bat.error = ""

\* ------------------------------------------------------------------------
\* Properties of the normalization
\* ------------------------------------------------------------------------

\* C16: the normalization is idempotent: normalizing a normalized text
\* returns it unchanged.
C16_NormalizeIdempotent == pc = "renormalized" => res = v2

\* where a second pass changes the text: a digit after a non-digit (the
\* inserted space is itself a non-digit before the digit) or two spaces left
\* by the single pass of the double-space rule
HasDigitAfterNonDigit(s) == \E p \in 1..(Len(s) - 1) : s[p] \notin Digit /\ s[p + 1] \in Digit
HasDoubleSpace(s) == \E p \in 1..(Len(s) - 1) : s[p] = " " /\ s[p + 1] = " "

IdempotentOnPlainText ==
  (pc = "renormalized" /\ ~HasDigitAfterNonDigit(v2) /\ ~HasDoubleSpace(v2)) => res = v2

\* ------------------------------------------------------------------------
\* Properties of the full_label column
\* ------------------------------------------------------------------------

\* the labels of levels 0 to 3 a record has, joined with " > "
OwnLabels(r) ==
  SelectSeq(<<r.Level_0_Label, r.Level_1_Label, r.Level_2_Label, r.Level_3_Label>>,
            LAMBDA l : l # None)

OwnPath(r) == join(OwnLabels(r), <<" ", ">", " ">>)

\* C17: in the final frame every record's full_label is the path of its own
\* labels of levels 0 to 3, a missing label giving no segment.
C17_FullLabelFromOwnLabels ==
  pc = "done" => \A k \in 1..Len(new_df) : new_df[k].full_label = OwnPath(new_df[k])

\* ------------------------------------------------------------------------
\* Properties of the numbering state
\* ------------------------------------------------------------------------

\* the pass of the loop that is taken completes
PassCompletes ==
  /\ pc = "classify"
  /\ cls.i < Len(lines) - 1
  /\ cls'.error = ""

\* the pass wrote the line as an un-numbered title
WrittenAsTitle ==
  cls'.processed_lines = Append(cls.processed_lines, MarkTitle \o CurrentLine \o NL)

\* the pass wrote the line as a single-numeral heading
WrittenAsMain ==
  /\ Len(cls'.processed_lines) = Len(cls.processed_lines) + 3
  /\ StartsWith(cls'.processed_lines[Len(cls.processed_lines) + 2], MarkMain)

\* C18: right after a line is written as a main heading, by the title rule
\* or by the single-numeral rule, last_seen_sub is empty.
C18_MainHeadingClearsLastSeenSub ==
  [][(PassCompletes /\ (WrittenAsTitle \/ WrittenAsMain))
       => cls'.last_seen_sub = <<>>]_vars

\* what the code does: the single-numeral rule alone clears it
SingleNumeralRuleClearsLastSeenSub ==
  [][(PassCompletes /\ WrittenAsMain) => cls'.last_seen_sub = <<>>]_vars

\* ------------------------------------------------------------------------
\* Properties of the merge pass on pieces of one paragraph
\* ------------------------------------------------------------------------

\* a pass of the merge loop is taken and completes
MergeStep ==
  /\ pc = "merge"
  /\ mrg.pos < Len(df2)
  /\ mrg'.error = ""

\* the row read has a preceding row and meets the three conditions against it
ThreeConditions ==
  /\ mrg.pos >= 1
  /\ LET row == df2[mrg.pos + 1]
         prev == df2[mrg.pos]
     IN  /\ row.Body[1] \notin Digit
         /\ row.index # prev.index + 1
         /\ join_key(row) = join_key(prev)

\* the Body of the record emitted last: the pending row, or the merged row
PrecedingText ==
  IF mrg.previous_text # None THEN mrg.previous_text
  ELSE mrg.rows_list[Len(mrg.rows_list)].Body

\* the row read was put into the record emitted last, not kept on its own
RowMergedIntoPreceding ==
  /\ mrg'.previous_text = None
  /\ mrg'.rows_list # <<>>
  /\ mrg'.rows_list[Len(mrg'.rows_list)].Body
       = PrecedingText \o df2[mrg.pos + 1].Body
  /\ Len(mrg'.rows_list)
       = Len(mrg.rows_list) + (IF mrg.previous_text # None THEN 1 ELSE 0)

\* C19: every body row meeting the three conditions against the row before it
\* is merged into the record emitted last, also when that record is itself
\* the result of a merge.
C19_MergeChains == [][(MergeStep /\ ThreeConditions) => RowMergedIntoPreceding]_vars

\* what the code does: the row is merged when the row before it was not
MergesIntoPlainPredecessor ==
  [][(MergeStep /\ ThreeConditions /\ mrg.previous_text # None)
       => RowMergedIntoPreceding]_vars

\* and a row that follows a merged row is never merged
NeverMergesAfterMerge ==
  [][(MergeStep /\ mrg.pos >= 1 /\ mrg.previous_text = None)
       => mrg'.previous_text = df2[mrg.pos + 1].Body]_vars

\* ------------------------------------------------------------------------
\* Properties of the paragraph boundaries
\* ------------------------------------------------------------------------

\* a pass of the loop of extract_data is taken and completes
ExtractStep ==
  /\ pc = "extract"
  /\ ext.i < Len(text_lines) - 1
  /\ ext'.error = ""

\* the line the pass reads and the line after it, stripped
LineRead == strip(text_lines[ext.i + 1])
LineAfter == strip(text_lines[ext.i + 2])

\* the buffer once the line is read: every line but a "#" line is appended,
\* a blank line too
BufferRead ==
  IF StartsWith(LineRead, <<"#">>) THEN ext.body_buffer
  ELSE Append(ext.body_buffer, LineRead)

\* (a): the line is blank and the buffer is not empty
BlankWithBuffer == LineRead = <<>> /\ BufferRead # <<>>

EndsWithAbbreviation ==
  EndsWith(LineRead, <<"e", ".", "g", ".">>) \/ EndsWith(LineRead, <<"i", ".", "e", ".">>)

\* (b): the next line is blank or starts lowercase, and the line ends with a
\* period that is not the one of "e.g." or "i.e."
PeriodBeforeBreak ==
  /\ (LineAfter = <<>> \/ LineAfter[1] \in Lower)
  /\ EndsWith(LineRead, <<".">>)
  /\ ~EndsWithAbbreviation

\* the pass declared a boundary: the buffer is emptied, and its text, if it
\* has any, is the Body of a new record
BoundaryDeclared ==
  /\ ext'.body_buffer = <<>>
  /\ IF \E k \in 1..Len(BufferRead) : BufferRead[k] # <<>>
     THEN /\ Len(ext'.data) = Len(ext.data) + 1
          /\ ext'.data[Len(ext'.data)].Body = join(BufferRead, <<" ">>)
     ELSE ext'.data = ext.data

\* the pass declared none: the buffer is kept and no record is added
NoBoundary == ext'.body_buffer = BufferRead /\ ext'.data = ext.data

\* C20: a boundary is declared at a line exactly when (a) or (b) holds; a
\* line ending in "e.g." or "i.e." ends no paragraph by (b), and at every
\* boundary the buffer is emptied.
C20_BoundaryExactlyWhen ==
  [][ExtractStep =>
       IF BlankWithBuffer \/ PeriodBeforeBreak THEN BoundaryDeclared ELSE NoBoundary]_vars

\* C20: a record was emitted at a boundary, and the line read last ends in
\* "e.g." or "i.e." before a lowercase or blank line and is kept in the buffer.
C20_Witness ==
  /\ pc = "extract"
  /\ ext.i > 1
  /\ ext.i < Len(text_lines)
  /\ \/ EndsWith(LastRead, <<"e", ".", "g", ".">>)
     \/ EndsWith(LastRead, <<"i", ".", "e", ".">>)
  /\ next_line_starts_lower(strip(text_lines[ext.i + 1]))
  /\ ext.data # <<>>
  /\ ext.body_buffer = <<LastRead>>

\* ------------------------------------------------------------------------
\* Properties of the records extract_data emits
\* ------------------------------------------------------------------------

\* the lines of the text that are neither blank nor "#" lines, stripped
BodyLines ==
  SelectSeq([k \in 1..Len(text_lines) |-> strip(text_lines[k])],
            LAMBDA l : l # <<>> /\ ~StartsWith(l, <<"#">>))

\* the words of a sequence of strings, in order
WordsOf(ss) == Flatten([k \in 1..Len(ss) |-> words(ss[k])])

\* the words of the Bodies of the records, in order
RecordWords(rows) == Flatten([k \in 1..Len(rows) |-> words(rows[k].Body)])

\* C21: when extract_data returns, the Bodies of its records hold every
\* non-blank line that is not a heading line, the last line of the text
\* included, each once and in the order of the text.
C21_EveryBodyLineInOneRecord ==
  pc = "clean" => RecordWords(df) = WordsOf(BodyLines)

\* what the code does: the last element of text.split('\n') is never read
AllButLastLine ==
  SelectSeq([k \in 1..(Len(text_lines) - 1) |-> strip(text_lines[k])],
            LAMBDA l : l # <<>> /\ ~StartsWith(l, <<"#">>))

EveryBodyLineButTheLast ==
  pc = "clean" => RecordWords(df) = WordsOf(AllButLastLine)

\* the pass of the loop that is taken appends a record
EmitsRecord == ExtractStep /\ Len(ext'.data) = Len(ext.data) + 1

\* the record the pass appends
Emitted == ext'.data[Len(ext'.data)]

\* the place (from 1) of the last FOOTNOTE line among the lines read, the
\* line of the pass included; 0 when there is none
LastFootnoteLine ==
  LET S == {k \in 1..(ext.i + 1) : StartsWith(strip(text_lines[k]), MarkFOOTNOTE)}
  IN  IF S = {} THEN 0 ELSE CHOOSE k \in S : \A j \in S : j <= k

\* a heading line was read after that FOOTNOTE line
HeadingSinceFootnote ==
  \E k \in (LastFootnoteLine + 1)..(ext.i + 1) : StartsWith(strip(text_lines[k]), <<"#">>)

\* the label that FOOTNOTE line sets
FootnoteLabelInForce ==
  footnote_label(search_footnote_id(strip(text_lines[LastFootnoteLine])))

\* C22: a record emitted after a FOOTNOTE line and before the next heading
\* line carries the label of the last FOOTNOTE line read: the emission of a
\* record does not clear the label.
C22_LabelUntilNextMarker ==
  [][(EmitsRecord /\ LastFootnoteLine > 0 /\ ~HeadingSinceFootnote)
       => Emitted.Level_5_Label = FootnoteLabelInForce]_vars

\* the FOOTNOTE line is in the buffer the record is made of: no record was
\* emitted since it was read
FootnoteInBuffer ==
  \E q \in 1..Len(BufferRead) : StartsWith(BufferRead[q], MarkFOOTNOTE)

\* C22, as the code has it: the label is carried by the one record whose
\* buffer holds the FOOTNOTE line, unless a heading line was read since; the
\* emission of that record clears it, and the records after it carry none.
C22_LabelClearedByEmission ==
  [][EmitsRecord =>
       Emitted.Level_5_Label
         = (IF FootnoteInBuffer /\ ~HeadingSinceFootnote
            THEN FootnoteLabelInForce ELSE None)]_vars

\* C22: no heading line was read, the first record carries a footnote label
\* and the record emitted after it carries none.
C22_Witness ==
  /\ pc = "extract"
  /\ Len(ext.data) >= 2
  /\ ext.data[1].Level_5_Label # None
  /\ ext.data[2].Level_5_Label = None
  /\ \A k \in 1..ext.i : ~StartsWith(strip(text_lines[k]), <<"#">>)

\* Properties of the single-numeral rule's lookahead
\* the raw line right after the line of the pass, blank lines not skipped
NextRawLine == lines[cls.i + 2]

\* that raw line is a two-part numeral heading or a "number. uppercase" line
NextRawIsHeading == match_two_part(NextRawLine) \/ match_number_dot(NextRawLine)

\* C23: a pass writes its line as a single-numeral heading only when the line
\* has the shape "number SPACE uppercase" and the raw line right after it is
\* a two-part numeral heading or a "number. uppercase" line; with a blank line
\* or any other line right after it, the line is not written as a main heading.
C23_MainHeadingNeedsNextRawHeading ==
  [][(PassCompletes /\ WrittenAsMain)
       => (match_number_upper(CurrentLine) /\ NextRawIsHeading)]_vars

\* C23: "1 I", a blank line, then "1.1 A": the first line was written as body
\* text, not as a main heading.
C23_Witness ==
  /\ pc = "classify"
  /\ cls.i = 1
  /\ Len(lines) >= 3
  /\ match_number_upper(strip(lines[1]))
  /\ strip(lines[2]) = <<>>
  /\ match_two_part(lines[3])
  /\ cls.processed_lines = <<strip(lines[1]) \o NL>>

\* Properties of the derived columns of the final frame
\* every row's no_fault_detected is the classifier's value on the row's Body
NoFaultMatchesBody ==
  \A k \in 1..Len(new_df) :
    new_df[k].no_fault_detected = starts_with_integer_ends_with_dot(new_df[k].Body)

\* C24: in the final output every record's no_fault_detected is the no-fault
\* classifier applied to the record's final Body.
C24_NoFaultOfFinalBody == pc = "done" => NoFaultMatchesBody

\* what the code does: the column matches the Body as it is right after the
\* merge pass, before the digit spacing rewrites Body
NoFaultOfMergedBody == pc = "merged" => NoFaultMatchesBody

\* every row's num_of_words is the word count of the row's Body
WordCountMatchesBody ==
  \A k \in 1..Len(new_df) : new_df[k].num_of_words = num_of_words(new_df[k].Body)

\* C25: in the final output every record's num_of_words is the number of
\* whitespace-separated tokens of three characters or more of the record's own
\* Body, the records produced by a merge included.
C25_WordCountOfOwnBody == pc = "done" => WordCountMatchesBody

\* the same right after the merge pass, before the digit spacing
WordCountOfMergedBody == pc = "merged" => WordCountMatchesBody

\* Properties of the buffer at heading lines
\* extract_data is about to read a heading line
HeadingNext ==
  /\ pc = "extract"
  /\ ext.i < Len(text_lines) - 1
  /\ StartsWith(strip(text_lines[ext.i + 1]), <<"#">>)

\* C26: when extract_data reads a heading line the paragraph buffer holds no
\* body text, so a heading never changes the labels under which text buffered
\* before it is emitted.
C26_BufferEmptyAtHeading == HeadingNext => non_blank(ext.body_buffer) = <<>>

\* what the code keeps: the buffer holds no body text at a heading line that
\* process_text_file wrote with a blank line before it
BufferEmptyAtHeadingAfterBlank ==
  (HeadingNext /\ ext.i > 0 /\ strip(text_lines[ext.i]) = <<>>)
    => non_blank(ext.body_buffer) = <<>>

\* Properties of the Body of the emitted records
\* no record in rows has an empty Body, stripped or not
BodiesNonEmpty(rows) == \A k \in 1..Len(rows) : strip(rows[k].Body) # <<>>

\* C27: every record extract_data emits, at a paragraph boundary or at the
\* flush after the loop, has a Body with at least one non-blank line; the
\* Body is still non-empty when the merge pass tests its first character, so
\* that test never raises.
C27_EveryRecordHasBody ==
  /\ BodiesNonEmpty(ext.data)
  /\ BodiesNonEmpty(df)
  /\ BodiesNonEmpty(df2)
  /\ mrg.error # "IndexError"

\* C27: a text was read to its end, with a record emitted at a paragraph
\* boundary and another one by the flush after the loop, and the merge pass
\* has tested the first character of the second one.
C27_Witness ==
  /\ pc = "merge"
  /\ mrg.pos >= 2
  /\ mrg.error = ""
  /\ Len(ext.data) >= 1
  /\ Len(df) = Len(ext.data) + 1

\* Properties of the sentinel line
\* the 0-based index of the sentinel, the last element of lines
SentinelIndex == Len(lines) - 1

\* the 0-based indices of the lines a written line was made of
MadeOf(k) == {cls.origin[k][q] : q \in 1..Len(cls.origin[k])}

\* the sentinel is the next non-empty line after the line at index i
SentinelIsNextNonEmpty(i) == next_non_empty(lines, i) = SentinelIndex

\* C28: the sentinel is read as lookahead only: the scan index never goes
\* past it, no written line is made of it or ends with its text (it is
\* neither emitted nor joined to a heading), and a line whose lookahead is the
\* sentinel is written neither as a title nor as a single-numeral heading.
C28_SentinelOnlyLookahead ==
  lines # <<>> =>
    /\ cls.i <= SentinelIndex
    /\ \A k \in 1..Len(cls.processed_lines) :
         /\ SentinelIndex \notin MadeOf(k)
         /\ ~EndsWith(cls.processed_lines[k], Sentinel \o NL)
         /\ \A i \in MadeOf(k) :
              /\ SentinelIsNextNonEmpty(i)
                   => ~StartsWith(cls.processed_lines[k], MarkTitle)
              /\ i = SentinelIndex - 1
                   => ~StartsWith(cls.processed_lines[k], MarkMain)

\* C28: the scan is over and the last line of the input, a two-part heading
\* whose lookahead was the sentinel, was written as a heading of its own text.
C28_Witness ==
  /\ lines # <<>>
  /\ cls.i = SentinelIndex
  /\ cls.error = ""
  /\ Len(lines) >= 2
  /\ match_two_part(lines[Len(lines) - 1])
  /\ Len(cls.processed_lines) >= 3
  /\ cls.processed_lines[Len(cls.processed_lines) - 1]
       = MarkSub \o strip(lines[Len(lines) - 1]) \o NL

====
